---------------------------- MODULE Spec2Model ----------------------------
(***************************************************************************)
(* Model of src/rollback.py: the rollback summary pipeline (column         *)
(* validation, cleaning, brand canonicalization, filtering, deduplication  *)
(* by (brand_name, reference) and the four grouped views).                 *)
(*                                                                         *)
(* Text is a sequence of one-character strings, so that strip, lower,      *)
(* the trailing ".0" removal and substring search are computed as the      *)
(* code computes them.  A pandas Series operation is modelled by its       *)
(* per-element operator, mapped over the rows of the table.                *)
(***************************************************************************)
EXTENDS Integers, Sequences, FiniteSets, TLC

VARIABLES
    pc,              \* position of the script run (see the actions)
    uploaded,        \* <<>> while st.file_uploader returns None, else <<file>>
    bucket,          \* sidebar selectbox "Agrupar horarios por"
    f_brand,         \* sidebar multiselect "Filtrar brand"
    f_user,          \* sidebar text input, stripped
    f_game,          \* sidebar text input, stripped
    df,              \* the cleaned base table (sequence of rows)
    dff,             \* the filtered table
    refs_brand,      \* one row per (brand_name, reference), with bucket_time
    cliente_jogo,    \* per (brand, user, game) counts
    horarios,        \* per (brand, bucket) counts
    jogos,           \* per (brand, game) counts
    top_jogos_geral, \* per game counts
    kpis,            \* the four KPI numbers
    computed,        \* names of the view tables bound in the script namespace
    shown,           \* names of the view tables rendered on the page
    msg,             \* the message box on the page
    first_done,      \* history: <<bucket, df, views>> of the first completed run, else <<>>
    filters_changed, \* history: a filter widget was changed since the start
    fn,              \* helper under test (specification SpecFn)
    arg,             \* its raw input cell
    out              \* the results obtained so far

vars == <<pc, uploaded, bucket, f_brand, f_user, f_game, df, dff, refs_brand,
          cliente_jogo, horarios, jogos, top_jogos_geral, kpis, computed,
          shown, msg, first_done, filters_changed, fn, arg, out>>

pipeVars == <<pc, uploaded, bucket, f_brand, f_user, f_game, df, dff, refs_brand,
              cliente_jogo, horarios, jogos, top_jogos_geral, kpis, computed,
              shown, msg, first_done, filters_changed>>

fnVars == <<fn, arg, out>>

-----------------------------------------------------------------------------
(* Bounds *)

\* longest uploaded table, in rows
MaxRows == 2

\* most blanks put on either side of a text handed to a helper
MaxPad == 1

-----------------------------------------------------------------------------
(* Text *)

UpperAlphabet ==
    <<"A","B","C","D","E","F","G","H","I","J","K","L","M",
      "N","O","P","Q","R","S","T","U","V","W","X","Y","Z">>

LowerAlphabet ==
    <<"a","b","c","d","e","f","g","h","i","j","k","l","m",
      "n","o","p","q","r","s","t","u","v","w","x","y","z">>

\* the lowercase of each uppercase letter, and the uppercase of each lowercase one
LowerOf == [c \in {UpperAlphabet[i] : i \in 1..26} |->
               LowerAlphabet[CHOOSE i \in 1..26 : UpperAlphabet[i] = c]]

UpperOf == [c \in {LowerAlphabet[i] : i \in 1..26} |->
               UpperAlphabet[CHOOSE i \in 1..26 : LowerAlphabet[i] = c]]

LowerChar(c) == IF c \in DOMAIN LowerOf THEN LowerOf[c] ELSE c

UpperChar(c) == IF c \in DOMAIN UpperOf THEN UpperOf[c] ELSE c

\* str.lower()
Lower(s) == [i \in 1..Len(s) |-> LowerChar(s[i])]

\* str.upper(), used to build inputs only
Upper(s) == [i \in 1..Len(s) |-> UpperChar(s[i])]

IsSpace(c) == c = " "

RECURSIVE LStrip(_)
LStrip(s) == IF s # <<>> /\ IsSpace(Head(s)) THEN LStrip(Tail(s)) ELSE s

RECURSIVE RStrip(_)
RStrip(s) ==
    IF s # <<>> /\ IsSpace(s[Len(s)]) THEN RStrip(SubSeq(s, 1, Len(s) - 1)) ELSE s

\* str.strip()
Strip(s) == RStrip(LStrip(s))

\* str.replace(r"\.0$", "", regex=True)
RemoveDotZero(s) ==
    IF Len(s) >= 2 /\ s[Len(s) - 1] = "." /\ s[Len(s)] = "0"
    THEN SubSeq(s, 1, Len(s) - 2)
    ELSE s

\* sub in s
Contains(s, sub) ==
    \E i \in 0..(Len(s) - Len(sub)) : SubSeq(s, i + 1, i + Len(sub)) = sub

\* a search, case ignored, for a text taken literally
ContainsNoCase(s, pat) == Contains(Lower(s), Lower(pat))

IsParen(c) == c = "(" \/ c = ")"

\* the depth of open groups after each character of a pattern
RECURSIVE paren_depths(_, _)
paren_depths(pat, d) ==
    IF pat = <<>> THEN <<d>>
    ELSE <<d>> \o paren_depths(Tail(pat),
                               d + (IF Head(pat) = "(" THEN 1
                                    ELSE IF Head(pat) = ")" THEN -1 ELSE 0))

\* re.compile(pat) of a pattern of literal characters and groups: it raises
\* re.error on a ")" that closes nothing and on a "(" left open
re_compiles(pat) ==
    LET ds == paren_depths(pat, 0)
    IN  /\ \A i \in 1..Len(ds) : ds[i] >= 0
        /\ ds[Len(ds)] = 0

\* str.contains(pat, case=False, na=False), regex=True by default, for a pattern
\* of literal characters and groups that compiles: a group of literals matches
\* what the literals match
str_contains(s, pat) ==
    ContainsNoCase(s, SelectSeq(pat, LAMBDA c : ~IsParen(c)))

RECURSIVE Blanks(_)
Blanks(n) == IF n = 0 THEN <<>> ELSE <<" ">> \o Blanks(n - 1)

Range(s) == {s[i] : i \in 1..Len(s)}

-----------------------------------------------------------------------------
(* Cells of the uploaded table, and the values of the cleaned table *)

\* A raw cell as pandas reads it: a missing cell (float NaN), None, a float
\* with no fractional part (digits in s), or a text.
TextCell(s)  == [k |-> "text",  s |-> s]
FloatCell(s) == [k |-> "float", s |-> s]
NaNCell      == [k |-> "nan",   s |-> <<>>]
NoneCell     == [k |-> "none",  s |-> <<>>]

\* Series.astype(str), per element
astype_str(c) ==
    CASE c.k = "nan"   -> <<"n","a","n">>
      [] c.k = "none"  -> <<"N","o","n","e">>
      [] c.k = "float" -> c.s \o <<".","0">>
      [] OTHER         -> c.s

\* pd.NA: the absent marker of a text column.  No text equals it, since every
\* element of a text is a single character.
NA == <<"<NA>">>

\* NaT: the absent marker of created_at; an instant t is <<t>>
NaT == <<>>

s_nan  == <<"n","a","n">>
s_None == <<"N","o","n","e">>
s_NaT  == <<"N","a","T">>
s_none == <<"n","o","n","e">>
s_nat  == <<"n","a","t">>

\* coerce_user_id, per element
coerce_user_id(c) ==
    LET s  == astype_str(c)
        s2 == RemoveDotZero(s)
        s3 == IF s2 \in {s_nan, s_None, s_NaT} THEN NA ELSE s2
    IN  IF s3 = NA THEN NA ELSE Strip(s3)

\* df[col].astype(str).replace(["nan", "None"], pd.NA).str.strip(), per element
clean_text(c) ==
    LET s  == astype_str(c)
        s2 == IF s \in {s_nan, s_None} THEN NA ELSE s
    IN  IF s2 = NA THEN NA ELSE Strip(s2)

b_7K       == <<"7","K">>
b_Cassino  == <<"C","a","s","s","i","n","o">>
b_Vera     == <<"V","e","r","a">>
b_SemBrand == <<"S","e","m"," ","B","r","a","n","d">>

a_7k       == <<"7","k">>
a_cassino  == <<"c","a","s","s","i","n","o">>
a_vera     == <<"v","e","r","a">>
a_bet      == <<"b","e","t">>
a_betbr    == <<"b","e","t","b","r">>

\* the alias dictionary of normalize_brand
brand_alias(x) ==
    CASE x = a_7k                 -> b_7K
      [] x = a_7k \o a_bet        -> b_7K
      [] x = a_7k \o a_betbr      -> b_7K
      [] x = a_cassino            -> b_Cassino
      [] x = a_cassino \o a_bet   -> b_Cassino
      [] x = a_cassino \o a_betbr -> b_Cassino
      [] x = a_vera               -> b_Vera
      [] x = a_vera \o a_bet      -> b_Vera
      [] x = a_vera \o a_betbr    -> b_Vera
      [] OTHER                    -> x

\* normalize_brand, per element
normalize_brand(c) ==
    LET x       == Strip(astype_str(c))
        x_lower == Lower(x)
        x2      == brand_alias(x_lower)
    IN  IF x2 \in {s_nan, s_none, <<>>} THEN b_SemBrand ELSE x2

\* ordem_brands_default: the labels the page treats as the known brands
ordem_brands_default == {b_7K, b_Cassino, b_Vera, b_SemBrand}

-----------------------------------------------------------------------------
(* Timestamps: instants are whole seconds since the epoch, UTC *)

DigitChars == <<"0","1","2","3","4","5","6","7","8","9">>

Digit(n) == DigitChars[n + 1]

DigitValOf == [c \in {DigitChars[i] : i \in 1..10} |->
                  (CHOOSE i \in 1..10 : DigitChars[i] = c) - 1]

IsDigit(c) == c \in DOMAIN DigitValOf

DigitVal(c) == DigitValOf[c]

\* the number written by the two digits of s from position i
Num2(s, i) == 10 * DigitVal(s[i]) + DigitVal(s[i + 1])

\* the day number (days since 1970-01-01) of a proleptic Gregorian date
days_from_civil(y, m, d) ==
    LET yy  == IF m <= 2 THEN y - 1 ELSE y
        era == yy \div 400
        yoe == yy - era * 400
        doy == ((153 * (IF m > 2 THEN m - 3 ELSE m + 9) + 2) \div 5) + d - 1
        doe == yoe * 365 + (yoe \div 4) - (yoe \div 100) + doy
    IN  era * 146097 + doe - 719468

\* whether s is written in the format %Y-%m-%dT%H:%M:%S%z
is_iso_instant(s) ==
    /\ Len(s) \in {20, 25}
    /\ \A i \in {1, 2, 3, 4, 6, 7, 9, 10, 12, 13, 15, 16, 18, 19} : IsDigit(s[i])
    /\ s[5] = "-" /\ s[8] = "-" /\ s[11] = "T" /\ s[14] = ":" /\ s[17] = ":"
    /\ Num2(s, 6) \in 1..12 /\ Num2(s, 9) \in 1..31
    /\ Num2(s, 12) < 24 /\ Num2(s, 15) < 60 /\ Num2(s, 18) < 60
    /\ IF Len(s) = 20 THEN s[20] = "Z"
       ELSE /\ s[20] \in {"+", "-"}
            /\ \A i \in {21, 22, 24, 25} : IsDigit(s[i])
            /\ s[23] = ":"

\* the instant an ISO text names, its offset taken off (utc=True)
iso_instant(s) ==
    LET days   == days_from_civil(100 * Num2(s, 1) + Num2(s, 3), Num2(s, 6), Num2(s, 9))
        local  == days * 86400 + Num2(s, 12) * 3600 + Num2(s, 15) * 60 + Num2(s, 18)
        offset == IF Len(s) = 20 THEN 0
                  ELSE (IF s[20] = "-" THEN 0 - 1 ELSE 1)
                       * (Num2(s, 21) * 3600 + Num2(s, 24) * 60)
    IN  local - offset

\* pd.to_datetime(..., errors="coerce", utc=True), per element: a missing cell and
\* a text that names no instant become NaT.  The texts the model parses are those
\* of the one format %Y-%m-%dT%H:%M:%S%z, so a cell parses the same in any table.
to_datetime(c) ==
    IF c.k = "text" /\ is_iso_instant(c.s) THEN <<iso_instant(c.s)>> ELSE NaT

\* freq = {"Hora": "H", "Minuto": "T"}[bucket]
freq(b) == IF b = "Hora" THEN "H" ELSE "T"

\* seconds in one period of a frequency alias
freq_seconds(f) == IF f = "H" THEN 3600 ELSE 60

\* Series.dt.round(freq) in place of floor (ties apart)
dt_round(t, f) ==
    LET g == freq_seconds(f) IN ((t + (g \div 2)) \div g) * g

\* Series.dt.floor(freq), per element
dt_floor(t, f) == t - (t % freq_seconds(f))

Digits2(n) == <<Digit((n \div 10) % 10), Digit(n % 10)>>

Digits4(n) == Digits2(n \div 100) \o Digits2(n % 100)

\* the proleptic Gregorian date <<year, month, day>> of a day number (days since
\* 1970-01-01), as strftime derives it
civil_from_days(days) ==
    LET z   == days + 719468
        era == z \div 146097
        doe == z - era * 146097
        yoe == (doe - (doe \div 1460) + (doe \div 36524) - (doe \div 146096)) \div 365
        doy == doe - (365 * yoe + (yoe \div 4) - (yoe \div 100))
        mp  == (5 * doy + 2) \div 153
        d   == doy - ((153 * mp + 2) \div 5) + 1
        m   == IF mp < 10 THEN mp + 3 ELSE mp - 9
        y   == yoe + era * 400 + (IF m <= 2 THEN 1 ELSE 0)
    IN  <<y, m, d>>

\* Series.dt.strftime("%d/%m/%Y %H:%M"), per element
strftime(t) ==
    LET ymd  == civil_from_days(t \div 86400)
        secs == t % 86400
    IN  Digits2(ymd[3]) \o <<"/">> \o Digits2(ymd[2]) \o <<"/">> \o Digits4(ymd[1])
        \o <<" ">> \o Digits2(secs \div 3600) \o <<":">> \o Digits2((secs % 3600) \div 60)

-----------------------------------------------------------------------------
(* Column validation *)

n_user_id    == <<"u","s","e","r","_","i","d">>
n_game_name  == <<"g","a","m","e","_","n","a","m","e">>
n_reference  == <<"r","e","f","e","r","e","n","c","e">>
n_created_at == <<"c","r","e","a","t","e","d","_","a","t">>
n_brand_name == <<"b","r","a","n","d","_","n","a","m","e">>

\* required = ["user_id", "game_name", "reference", "created_at", "brand_name"]
required == <<n_user_id, n_game_name, n_reference, n_created_at, n_brand_name>>

\* norm_cols: the column labels stripped.  A column is [name, field]: its label
\* and the field of the row whose cells it carries.
norm_cols(cols) == [j \in 1..Len(cols) |-> [cols[j] EXCEPT !.name = Strip(cols[j].name)]]

\* cols_lower of require_cols: the keys, and the column each key keeps (the last)
cols_lower_keys(cols) == {Lower(Strip(cols[j].name)) : j \in 1..Len(cols)}

cols_lower(cols, k) ==
    LET key == [j \in 1..Len(cols) |-> Lower(Strip(cols[j].name))]
        js  == {j \in 1..Len(cols) : key[j] = k}
    IN  cols[CHOOSE j \in js : \A i \in js : i <= j]

\* missing of require_cols, in the order of required
missing_cols(cols) ==
    LET keys == cols_lower_keys(cols)
    IN  SelectSeq(required, LAMBDA c : c \notin keys)

\* colmap of require_cols (defined when nothing is missing)
colmap(cols) == [i \in 1..Len(required) |-> cols_lower(cols, required[i])]

-----------------------------------------------------------------------------
(* Cleaning (lines 156-171) *)

\* one row of df after lines 156-167; cm is colmap, and cm[i].field names the
\* cell of the raw row that stands under the column chosen for required[i]
clean_row(r, cm) ==
    [user_id    |-> coerce_user_id(r[cm[1].field]),
     game_name  |-> clean_text(r[cm[2].field]),
     reference  |-> clean_text(r[cm[3].field]),
     created_at |-> to_datetime(r[cm[4].field]),
     brand_name |-> normalize_brand(r[cm[5].field])]

\* df.dropna(subset=["reference", "created_at"])
dropna_ref_created(rows) ==
    SelectSeq(rows, LAMBDA r : r.reference # NA /\ r.created_at # NaT)

\* line 171 left out: the rows pass as they are
nonempty_ref_kept(rows) == rows

\* df[df["reference"].astype(str).str.len() > 0]
nonempty_ref(rows) == SelectSeq(rows, LAMBDA r : Len(r.reference) > 0)

\* df after lines 156-171
clean_table(file) ==
    LET cm == colmap(file.cols)
    IN  nonempty_ref(dropna_ref_created(
            [i \in 1..Len(file.rows) |-> clean_row(file.rows[i], cm)]))

-----------------------------------------------------------------------------
(* Filters (lines 182-194) *)

\* astype(str) of a cleaned text value: the absent marker prints as <NA>
str_of(v) == IF v = NA THEN <<"<","N","A",">">> ELSE v

\* brands_opts: the labels the brand filter offers
brands_opts(rows) == {rows[i].brand_name : i \in 1..Len(rows)}

\* lines 189-190: the brand filter
filter_brand(rows, fb) ==
    IF fb # {} THEN SelectSeq(rows, LAMBDA r : r.brand_name \in fb) ELSE rows

\* lines 191-192: the user filter, its text a regular expression
filter_user(rows, fu) ==
    IF fu # <<>> THEN SelectSeq(rows, LAMBDA r : str_contains(str_of(r.user_id), fu))
    ELSE rows

\* lines 193-194: the game filter, its text a regular expression
filter_game(rows, fg) ==
    IF fg # <<>> THEN SelectSeq(rows, LAMBDA r : str_contains(str_of(r.game_name), fg))
    ELSE rows

\* dff of lines 188-194, when both patterns compile
apply_filters(rows, fb, fu, fg) ==
    filter_game(filter_user(filter_brand(rows, fb), fu), fg)

\* line 192 or line 194 raises re.error
filter_raises(fu, fg) ==
    \/ fu # <<>> /\ ~re_compiles(fu)
    \/ fg # <<>> /\ ~re_compiles(fg)

\* dff as assigned when the exception leaves the script
dff_at_raise(rows, fb, fu, fg) ==
    IF fu # <<>> /\ ~re_compiles(fu)
    THEN filter_brand(rows, fb)
    ELSE filter_user(filter_brand(rows, fb), fu)

-----------------------------------------------------------------------------
(* Deduplication and the four views (lines 203-240) *)

\* DataFrame.drop_duplicates(subset=...): the first row of each key, in order
drop_duplicates(rows, key(_)) ==
    LET keep == {i \in 1..Len(rows) : \A j \in 1..(i - 1) : key(rows[j]) # key(rows[i])}
        RECURSIVE take(_)
        take(i) == IF i > Len(rows) THEN <<>>
                   ELSE (IF i \in keep THEN <<rows[i]>> ELSE <<>>) \o take(i + 1)
    IN  take(1)

key_brand_ref(r) == <<r.brand_name, r.reference>>

key_brand_user_game_ref(r) == <<r.brand_name, r.user_id, r.game_name, r.reference>>

\* drop_duplicates() with no subset: only rows equal in every column collapse
dedup_whole_rows(rows) == drop_duplicates(rows, LAMBDA r : r)

\* drop_duplicates(subset=..., keep="last"): the last row of each key
dedup_keep_last(rows) ==
    LET keep == {i \in 1..Len(rows) :
                    \A j \in (i + 1)..Len(rows) :
                        key_brand_ref(rows[j]) # key_brand_ref(rows[i])}
        RECURSIVE take(_)
        take(i) == IF i > Len(rows) THEN <<>>
                   ELSE (IF i \in keep THEN <<rows[i]>> ELSE <<>>) \o take(i + 1)
    IN  take(1)

\* refs_brand of line 203
dedup_refs(rows) == drop_duplicates(rows, key_brand_ref)

\* refs_brand after line 213: the column bucket_time added
with_bucket(rows, b) ==
    [i \in 1..Len(rows) |->
        [user_id     |-> rows[i].user_id,
         game_name   |-> rows[i].game_name,
         reference   |-> rows[i].reference,
         created_at  |-> rows[i].created_at,
         brand_name  |-> rows[i].brand_name,
         bucket_time |-> dt_floor(rows[i].created_at[1], freq(b))]]

\* number of rows of a table that satisfy p: what agg(("reference", "count"))
\* counts in a group, the reference being present in every row it is given
count_rows(rows, p(_)) == Cardinality({i \in 1..Len(rows) : p(rows[i])})

\* cliente_jogo of lines 205-211
agg_cliente_jogo(rows) ==
    LET present == SelectSeq(rows, LAMBDA r : r.user_id # NA /\ r.game_name # NA
                                               /\ r.reference # NA)
        uniq    == drop_duplicates(present, key_brand_user_game_ref)
        groups  == {<<uniq[i].brand_name, uniq[i].user_id, uniq[i].game_name>> :
                        i \in 1..Len(uniq)}
    IN  {[brand_name    |-> g[1],
          user_id       |-> g[2],
          game_name     |-> g[3],
          qtd_rollbacks |-> count_rows(uniq, LAMBDA r :
                                <<r.brand_name, r.user_id, r.game_name>> = g)] :
            g \in groups}

\* horarios of lines 214-219
agg_horarios(refs) ==
    LET groups == {<<refs[i].brand_name, refs[i].bucket_time>> : i \in 1..Len(refs)}
    IN  {[brand_name    |-> g[1],
          bucket_time   |-> g[2],
          qtd_rollbacks |-> count_rows(refs, LAMBDA r :
                                <<r.brand_name, r.bucket_time>> = g),
          horario_utc   |-> strftime(g[2])] :
            g \in groups}

\* jogos of lines 221-226
agg_jogos(refs) ==
    LET named  == SelectSeq(refs, LAMBDA r : r.game_name # NA)
        groups == {<<named[i].brand_name, named[i].game_name>> : i \in 1..Len(named)}
    IN  {[brand_name    |-> g[1],
          game_name     |-> g[2],
          qtd_rollbacks |-> count_rows(named, LAMBDA r :
                                <<r.brand_name, r.game_name>> = g)] :
            g \in groups}

\* the sum of column qtd_rollbacks over a set of rows
RECURSIVE sum_qtd(_)
sum_qtd(S) ==
    IF S = {} THEN 0
    ELSE LET x == CHOOSE y \in S : TRUE IN x.qtd_rollbacks + sum_qtd(S \ {x})

\* .max() in place of .sum()
agg_top_jogos_max(jg) ==
    {[game_name     |-> g,
      qtd_rollbacks |-> CHOOSE n \in {x.qtd_rollbacks : x \in {y \in jg : y.game_name = g}} :
                            \A x \in {y \in jg : y.game_name = g} : x.qtd_rollbacks <= n] :
        g \in {x.game_name : x \in jg}}

\* top_jogos_geral of lines 228-232
agg_top_jogos_geral(jg) ==
    {[game_name     |-> g,
      qtd_rollbacks |-> sum_qtd({x \in jg : x.game_name = g})] :
        g \in {x.game_name : x \in jg}}

\* the sum of the values of function f over the set S
RECURSIVE sum_over(_, _)
sum_over(S, f) ==
    IF S = {} THEN 0
    ELSE LET x == CHOOSE y \in S : TRUE IN f[x] + sum_over(S \ {x}, f)

\* ["reference"].nunique() with no groupby: references counted across brands
nunique_ref_overall(rows) == Cardinality({rows[i].reference : i \in 1..Len(rows)})

\* groupby("brand_name")["reference"].nunique().sum()
nunique_ref_per_brand(rows) ==
    LET brands == {rows[i].brand_name : i \in 1..Len(rows)}
    IN  sum_over(brands,
            [b \in brands |-> Cardinality({rows[i].reference :
                                  i \in {j \in 1..Len(rows) : rows[j].brand_name = b}})])

\* groupby("brand_name")["game_name"].nunique().sum()
nunique_game_per_brand(jg) ==
    LET brands == {x.brand_name : x \in jg}
    IN  sum_over(brands,
            [b \in brands |-> Cardinality({x.game_name : x \in
                                  {y \in jg : y.brand_name = b}})])

\* the KPIs of lines 237-240
compute_kpis(refs, cj, hs, jg) ==
    [total_rollbacks    |-> nunique_ref_per_brand(refs),
     total_usuario_jogo |-> Cardinality(cj),
     total_horarios     |-> Cardinality(hs),
     total_jogos        |-> nunique_game_per_brand(jg)]

\* lines 203-240 as one value: the tables and KPIs computed from the filtered
\* table rows under bucket b
compute_views(rows, b) ==
    LET refs == with_bucket(dedup_refs(rows), b)
        cj   == agg_cliente_jogo(rows)
        hs   == agg_horarios(refs)
        jg   == agg_jogos(refs)
    IN  [refs_brand      |-> refs,
         cliente_jogo    |-> cj,
         horarios        |-> hs,
         jogos           |-> jg,
         top_jogos_geral |-> agg_top_jogos_geral(jg),
         kpis            |-> compute_kpis(refs, cj, hs, jg)]

-----------------------------------------------------------------------------
(* The uploaded tables the model draws from *)

t_u1   == <<"u","1">>
t_12   == <<"1","2">>
t_g1   == <<"g","1">>
t_g2   == <<"g","2">>
t_rA   == <<"r","A">>
t_rB   == <<"r","B">>

\* the created_at texts of the uploaded tables
ts_105907    == <<"2","0","2","4","-","0","3","-","0","1","T","1","0",":","5","9",":","0","7","Z">>
ts_105959    == <<"2","0","2","4","-","0","3","-","0","1","T","1","0",":","5","9",":","5","9","Z">>
ts_071507_m3 == <<"2","0","2","4","-","0","3","-","0","1","T","0","7",":","1","5",":","0","7","-","0","3",":","0","0">>
ts_101542    == <<"2","0","2","4","-","0","3","-","0","1","T","1","0",":","1","5",":","4","2","Z">>
ts_1969      == <<"1","9","6","9","-","1","2","-","3","1","T","2","3",":","5","9",":","3","0","Z">>
ts_100000    == <<"2","0","2","4","-","0","3","-","0","1","T","1","0",":","0","0",":","0","0","Z">>
ts_bad       == <<"n","o","t"," ","a"," ","d","a","t","e">>

RawRow(u, g, r, t, b) ==
    [user_id |-> u, game_name |-> g, reference |-> r, created_at |-> t, brand_name |-> b]

\* Rows chosen so that tables hold several rows of one (brand, reference) under
\* different spellings, users and games, one reference under two brands, absent
\* users and games, invalid references and timestamps, a missing brand, and
\* timestamps in one minute, in one hour, on the hour, across an hour boundary,
\* with a UTC offset and before the epoch.
RawRows ==
   << RawRow(TextCell(t_u1), TextCell(t_g1), TextCell(t_rA),
             TextCell(ts_105907), TextCell(a_7k \o a_bet)),
      RawRow(FloatCell(t_12), TextCell(t_g2), TextCell(<<" ">> \o t_rA \o <<" ">>),
             TextCell(ts_105959), TextCell(<<"7","K","B","e","t"," ">>)),
      RawRow(TextCell(t_u1), TextCell(t_g2), TextCell(t_rB),
             TextCell(ts_071507_m3), TextCell(Upper(a_cassino))),
      RawRow(TextCell(t_12), TextCell(t_g1), TextCell(t_rA),
             TextCell(ts_101542), TextCell(b_Cassino)),
      RawRow(NaNCell, TextCell(t_g1), TextCell(t_rB),
             TextCell(ts_1969), NaNCell),
      RawRow(TextCell(t_u1), NaNCell, TextCell(t_rB),
             TextCell(ts_100000), TextCell(a_7k)),
      RawRow(TextCell(t_u1), TextCell(t_g1), NaNCell,
             TextCell(ts_101542), TextCell(a_7k \o a_bet)),
      RawRow(TextCell(t_u1), TextCell(t_g1), TextCell(<<" "," ">>),
             TextCell(ts_105907), TextCell(b_Cassino)),
      RawRow(TextCell(t_u1), TextCell(t_g2), TextCell(t_rB),
             TextCell(ts_bad), TextCell(<<" ">> \o b_Vera \o <<" ">>)) >>

Col(name, field) == [name |-> name, field |-> field]

\* the header rows of the uploaded tables: the five columns reordered, in other
\* casing, padded, beside a sixth; the reference column under another label; two
\* columns missing
Headers ==
   << <<Col(<<" ">> \o Upper(n_brand_name), "brand_name"),
        Col(<<"i","d">>, "user_id"),
        Col(Upper(n_user_id), "user_id"),
        Col(<<"G","a","m","e","_","N","a","m","e"," ">>, "game_name"),
        Col(n_reference, "reference"),
        Col(<<"C","r","e","a","t","e","d","_","A","t">>, "created_at")>>,
      <<Col(n_user_id, "user_id"), Col(n_game_name, "game_name"),
        Col(<<"r","e","f">>, "reference"), Col(n_created_at, "created_at"),
        Col(n_brand_name, "brand_name")>>,
      <<Col(n_user_id, "user_id"), Col(n_game_name, "game_name"),
        Col(n_reference, "reference")>> >>

RECURSIVE SeqsUpTo(_, _)
SeqsUpTo(S, n) ==
    IF n = 0 THEN {<<>>}
    ELSE LET shorter == SeqsUpTo(S, n - 1)
         IN  shorter \cup {Append(q, x) : q \in shorter, x \in S}

\* An uploaded file is known by its handle: which header row it has and which
\* rows follow, in order.
Files == [header : 1..Len(Headers), rows : SeqsUpTo(1..Len(RawRows), MaxRows)]

\* load_file: the table read from the uploaded file
load_file(file) ==
    [cols |-> Headers[file.header],
     rows |-> [i \in 1..Len(file.rows) |-> RawRows[file.rows[i]]]]

\* lines 142-144: the table read, its labels stripped
load_table(file) ==
    LET t == load_file(file) IN [t EXCEPT !.cols = norm_cols(t.cols)]

\* what the user types into the two text filters
UserInputs == {<<>>, <<"U","1">>, <<"(">>}

GameInputs == {<<>>, <<" ","G","2"," ">>}

Buckets == {"Minuto", "Hora"}

ViewNames == {"cliente_jogo", "horarios", "jogos", "top_jogos_geral"}

-----------------------------------------------------------------------------
(* The script run, stage by stage *)

Message(kind, missing) == [kind |-> kind, missing |-> missing]

NoKpis == [total_rollbacks |-> 0, total_usuario_jogo |-> 0,
           total_horarios |-> 0, total_jogos |-> 0]

\* the views of the run, as one value
Views == [refs_brand |-> refs_brand, cliente_jogo |-> cliente_jogo,
          horarios |-> horarios, jogos |-> jogos,
          top_jogos_geral |-> top_jogos_geral, kpis |-> kpis]

NoFilter == f_brand = {} /\ f_user = <<>> /\ f_game = <<>>

\* a run starts with an empty script namespace and an empty page
FreshRun ==
    /\ df' = <<>>
    /\ dff' = <<>>
    /\ refs_brand' = <<>>
    /\ cliente_jogo' = {}
    /\ horarios' = {}
    /\ jogos' = {}
    /\ top_jogos_geral' = {}
    /\ kpis' = NoKpis
    /\ computed' = {}
    /\ shown' = {}

\* lines 103-134 with no file: the widgets at their defaults, st.info, st.stop
PipeInit ==
    /\ pc = "idle"
    /\ uploaded = <<>>
    /\ bucket = "Minuto"
    /\ f_brand = {}
    /\ f_user = <<>>
    /\ f_game = <<>>
    /\ df = <<>>
    /\ dff = <<>>
    /\ refs_brand = <<>>
    /\ cliente_jogo = {}
    /\ horarios = {}
    /\ jogos = {}
    /\ top_jogos_geral = {}
    /\ kpis = NoKpis
    /\ computed = {}
    /\ shown = {}
    /\ msg = Message("info", <<>>)
    /\ first_done = <<>>
    /\ filters_changed = FALSE

FnIdle ==
    /\ fn = "none"
    /\ arg = NaNCell
    /\ out = <<>>

Init == PipeInit /\ FnIdle

\* line 131: a file is uploaded, and the script runs
Upload ==
    /\ pc = "idle"
    /\ \E file \in Files : uploaded' = <<file>>
    /\ pc' = "loaded"
    /\ msg' = Message("none", <<>>)
    /\ FreshRun
    /\ UNCHANGED <<bucket, f_brand, f_user, f_game, first_done, filters_changed>>
    /\ UNCHANGED fnVars

\* lines 142-154: the file is read; require_cols, and st.error + st.stop when a column is missing
Validate ==
    /\ pc = "loaded"
    /\ LET missing == missing_cols(load_table(uploaded[1]).cols)
       IN  IF missing # <<>>
           THEN /\ msg' = Message("error", missing)
                /\ pc' = "missing_columns"
           ELSE /\ msg' = msg
                /\ pc' = "validated"
    /\ UNCHANGED <<uploaded, bucket, f_brand, f_user, f_game, df, dff, refs_brand,
                   cliente_jogo, horarios, jogos, top_jogos_geral, kpis, computed,
                   shown, first_done, filters_changed>>
    /\ UNCHANGED fnVars

\* lines 156-175: cleaning, and st.warning + st.stop when no row is valid
Clean ==
    /\ pc = "validated"
    /\ df' = clean_table(load_table(uploaded[1]))
    /\ IF df' = <<>>
       THEN /\ msg' = Message("warning_base", <<>>)
            /\ pc' = "empty_base"
       ELSE /\ msg' = msg
            /\ pc' = "cleaned"
    /\ UNCHANGED <<uploaded, bucket, f_brand, f_user, f_game, dff, refs_brand,
                   cliente_jogo, horarios, jogos, top_jogos_geral, kpis, computed,
                   shown, first_done, filters_changed>>
    /\ UNCHANGED fnVars

\* the filters applied to df itself, with no copy
FilterInPlace ==
    /\ pc = "cleaned"
    /\ ~filter_raises(f_user, f_game)
    /\ dff' = apply_filters(df, f_brand, f_user, f_game)
    /\ df' = dff'
    /\ IF dff' = <<>>
       THEN /\ msg' = Message("warning_filter", <<>>)
            /\ pc' = "empty_filter"
       ELSE /\ msg' = msg
            /\ pc' = "filtered"
    /\ UNCHANGED <<uploaded, bucket, f_brand, f_user, f_game, refs_brand,
                   cliente_jogo, horarios, jogos, top_jogos_geral, kpis, computed,
                   shown, first_done, filters_changed>>
    /\ UNCHANGED fnVars

\* lines 188-198: the filters; st.warning + st.stop when no row is left; the
\* uncaught re.error of a pattern that does not compile ends the run
Filter ==
    /\ pc = "cleaned"
    /\ IF filter_raises(f_user, f_game)
       THEN /\ dff' = dff_at_raise(df, f_brand, f_user, f_game)
            /\ msg' = Message("exception", <<>>)
            /\ pc' = "exception"
       ELSE /\ dff' = apply_filters(df, f_brand, f_user, f_game)
            /\ IF dff' = <<>>
               THEN /\ msg' = Message("warning_filter", <<>>)
                    /\ pc' = "empty_filter"
               ELSE /\ msg' = msg
                    /\ pc' = "filtered"
    /\ UNCHANGED <<uploaded, bucket, f_brand, f_user, f_game, df, refs_brand,
                   cliente_jogo, horarios, jogos, top_jogos_geral, kpis, computed,
                   shown, first_done, filters_changed>>
    /\ UNCHANGED fnVars

\* lines 203-240: the deduplicated table, the four views and the KPIs
Process ==
    /\ pc = "filtered"
    /\ LET v == compute_views(dff, bucket)
       IN  /\ refs_brand' = v.refs_brand
           /\ cliente_jogo' = v.cliente_jogo
           /\ horarios' = v.horarios
           /\ jogos' = v.jogos
           /\ top_jogos_geral' = v.top_jogos_geral
           /\ kpis' = v.kpis
    /\ computed' = ViewNames
    /\ pc' = "processed"
    /\ UNCHANGED <<uploaded, bucket, f_brand, f_user, f_game, df, dff, shown, msg,
                   first_done, filters_changed>>
    /\ UNCHANGED fnVars

\* lines 242-444: the page: KPIs, tables, charts and downloads of the four views
Render ==
    /\ pc = "processed"
    /\ shown' = ViewNames
    /\ pc' = "done"
    /\ first_done' = IF first_done = <<>> THEN <<bucket, df, Views>> ELSE first_done
    /\ UNCHANGED <<uploaded, bucket, f_brand, f_user, f_game, df, dff, refs_brand,
                   cliente_jogo, horarios, jogos, top_jogos_geral, kpis, computed,
                   msg, filters_changed>>
    /\ UNCHANGED fnVars

Stopped == pc \in {"idle", "missing_columns", "empty_base", "empty_filter", "exception",
                  "done"}

\* a widget changed: the script runs again from the top, the upload kept
Rerun ==
    /\ pc' = IF uploaded = <<>> THEN "idle" ELSE "loaded"
    /\ msg' = IF uploaded = <<>> THEN Message("info", <<>>) ELSE Message("none", <<>>)
    /\ FreshRun
    /\ UNCHANGED <<uploaded, first_done>>
    /\ UNCHANGED fnVars

\* lines 103-108: the bucket selectbox, on the page in every run
ChangeBucket ==
    /\ Stopped
    /\ \E b \in Buckets \ {bucket} : bucket' = b
    /\ Rerun
    /\ UNCHANGED <<f_brand, f_user, f_game, filters_changed>>

\* lines 182-183: the brand multiselect, on the page once the base is not empty
ChangeBrandFilter ==
    /\ pc \in {"empty_filter", "exception", "done"}
    /\ \E fb \in (SUBSET brands_opts(df)) \ {f_brand} : f_brand' = fb
    /\ filters_changed' = TRUE
    /\ Rerun
    /\ UNCHANGED <<bucket, f_user, f_game>>

\* line 185: the user text input, stripped
ChangeUserFilter ==
    /\ pc \in {"empty_filter", "exception", "done"}
    /\ \E u \in UserInputs :
          /\ Strip(u) # f_user
          /\ f_user' = Strip(u)
    /\ filters_changed' = TRUE
    /\ Rerun
    /\ UNCHANGED <<bucket, f_brand, f_game>>

\* line 186: the game text input, stripped
ChangeGameFilter ==
    /\ pc \in {"empty_filter", "exception", "done"}
    /\ \E g \in GameInputs :
          /\ Strip(g) # f_game
          /\ f_game' = Strip(g)
    /\ filters_changed' = TRUE
    /\ Rerun
    /\ UNCHANGED <<bucket, f_brand, f_user>>

Next ==
    \/ Upload
    \/ Validate
    \/ Clean
    \/ Filter
    \/ Process
    \/ Render
    \/ ChangeBucket
    \/ ChangeBrandFilter
    \/ ChangeUserFilter
    \/ ChangeGameFilter

Spec == Init /\ [][Next]_vars

\* the script is between two of its stages
Running == pc \in {"loaded", "validated", "cleaned", "filtered", "processed"}

-----------------------------------------------------------------------------
(* The cleaning helpers on their own: one raw cell in, the cleaned value out *)

\* a text as written, in lowercase and in uppercase
Casings(s) == {s, Lower(s), Upper(s)}

\* a text with up to MaxPad blanks on either side
Padded(s) == {Blanks(l) \o s \o Blanks(r) : l \in 0..MaxPad, r \in 0..MaxPad}

BrandTexts ==
    { a_7k, a_7k \o a_bet, a_7k \o a_betbr,
      a_cassino, a_cassino \o a_bet, a_cassino \o a_betbr,
      a_vera, a_vera \o a_bet, a_vera \o a_betbr,
      b_7K, b_Cassino, b_Vera, b_SemBrand,
      <<"F","o","o","B","a","r">> }

SentinelTexts == {s_nan, s_None, s_NaT, <<>>}

ValueTexts == {t_u1, t_12 \o <<".","0">>, t_rA}

FnCells ==
    {TextCell(p) : p \in UNION {Padded(c) : c \in
        UNION {Casings(t) : t \in BrandTexts \cup SentinelTexts \cup ValueTexts}}}
    \cup {NaNCell, NoneCell, FloatCell(t_12)}

FnInit ==
    /\ PipeInit
    /\ fn = "none"
    /\ arg \in FnCells
    /\ out = <<>>

\* line 164 on one cell
ApplyNormalizeBrand ==
    /\ fn = "none"
    /\ fn' = "normalize_brand"
    /\ out' = <<normalize_brand(arg)>>
    /\ UNCHANGED arg
    /\ UNCHANGED pipeVars

\* the label classified once more
ReapplyNormalizeBrand ==
    /\ fn = "normalize_brand"
    /\ Len(out) = 1
    /\ out' = Append(out, normalize_brand(TextCell(out[1])))
    /\ UNCHANGED <<fn, arg>>
    /\ UNCHANGED pipeVars

\* line 159 on one cell
ApplyCoerceUserId ==
    /\ fn = "none"
    /\ fn' = "coerce_user_id"
    /\ out' = <<coerce_user_id(arg)>>
    /\ UNCHANGED arg
    /\ UNCHANGED pipeVars

\* lines 160 and 161 on one cell
ApplyCleanText ==
    /\ fn = "none"
    /\ \E col \in {"game_name", "reference"} : fn' = col
    /\ out' = <<clean_text(arg)>>
    /\ UNCHANGED arg
    /\ UNCHANGED pipeVars

FnNext ==
    \/ ApplyNormalizeBrand
    \/ ReapplyNormalizeBrand
    \/ ApplyCoerceUserId
    \/ ApplyCleanText

SpecFn == FnInit /\ [][FnNext]_vars

-----------------------------------------------------------------------------
(* Brand canonicalization *)

\* C4: classifying a label the classifier outputs returns it unchanged: a second
\* classification of any result equals the first, and each of the labels "7K",
\* "Cassino", "Vera" and "Sem Brand" is classified as itself.
C4_BrandIdempotent ==
    /\ (fn = "normalize_brand" /\ Len(out) = 2) => out[2] = out[1]
    /\ (fn = "normalize_brand" /\ arg.k = "text" /\ arg.s \in ordem_brands_default)
          => out[1] = arg.s

-----------------------------------------------------------------------------
(* Sentinels *)

\* the raw texts that stand for no value: empty, or nan / none / nat in any
\* casing, blanks around them or not; and the missing cells
IsSentinelCell(c) ==
    \/ c.k \in {"nan", "none"}
    \/ c.k = "text" /\ Lower(Strip(c.s)) \in {<<>>, s_nan, s_none, s_nat}

\* C5: a user_id, game_name or reference whose raw text is empty or a sentinel
\* is cleaned to the absent marker, and no cleaned value is the text nan or
\* none (in any casing) or the empty text.
C5_SentinelToAbsent ==
    (fn \in {"coerce_user_id", "game_name", "reference"})
        => /\ IsSentinelCell(arg) => out[1] = NA
           /\ out[1] # NA => Lower(out[1]) \notin {<<>>, s_nan, s_none}

-----------------------------------------------------------------------------
(* Statements about the run *)

Aggregated == pc \in {"processed", "done"}

\* a table without its column bucket_time
without_bucket(refs) ==
    [i \in 1..Len(refs) |->
        [user_id    |-> refs[i].user_id,
         game_name  |-> refs[i].game_name,
         reference  |-> refs[i].reference,
         created_at |-> refs[i].created_at,
         brand_name |-> refs[i].brand_name]]

\* the rows of a table whose (brand_name, reference) is k
rows_of_key(rows, k) ==
    {i \in 1..Len(rows) : <<rows[i].brand_name, rows[i].reference>> = k}

-----------------------------------------------------------------------------
(* Deduplication *)

\* C1: once the views are computed, every (brand_name, reference) carried by at
\* least one row of the filtered valid rows has exactly one row in refs_brand,
\* however many rows carry it; no two rows of refs_brand share the pair, and
\* refs_brand holds no pair the filtered rows do not carry.
C1_DedupCorrect ==
    Aggregated =>
        /\ \A i \in 1..Len(dff) :
              Cardinality(rows_of_key(refs_brand,
                  <<dff[i].brand_name, dff[i].reference>>)) = 1
        /\ \A i, j \in 1..Len(refs_brand) :
              (refs_brand[i].brand_name = refs_brand[j].brand_name
               /\ refs_brand[i].reference = refs_brand[j].reference) => i = j
        /\ \A j \in 1..Len(refs_brand) :
              rows_of_key(dff, <<refs_brand[j].brand_name, refs_brand[j].reference>>) # {}

\* two uploaded rows that differ in user, game, instant and spelling carry one
\* (brand_name, reference), and refs_brand holds one row for it
C1_Witness ==
    /\ pc = "done"
    /\ Len(dff) = 2
    /\ dff[1] # dff[2]
    /\ dff[1].brand_name = dff[2].brand_name
    /\ dff[1].reference = dff[2].reference
    /\ Len(refs_brand) = 1

-----------------------------------------------------------------------------
(* Invalid rows *)

\* the uploaded table of the run, its labels stripped
RawTable == load_table(uploaded[1])

\* a raw row whose reference cell is missing or blank, or whose created_at cell
\* names no instant; cm is colmap
RawInvalid(r, cm) ==
    LET ref == r[cm[3].field]
        ts  == r[cm[4].field]
    IN  \/ ref.k \in {"nan", "none"}
        \/ ref.k = "text" /\ Strip(ref.s) = <<>>
        \/ ts.k # "text"
        \/ ~ is_iso_instant(ts.s)

\* a table without its invalid rows
ValidOnly(t) ==
    LET cm == colmap(t.cols)
    IN  [t EXCEPT !.rows = SelectSeq(t.rows, LAMBDA r : ~ RawInvalid(r, cm))]

\* C2: a row whose reference is absent or empty, or whose created_at does not
\* parse, is in none of df, dff and refs_brand, and counts in none of the four
\* views: every valid row is kept, and the tables, views and KPIs are those of
\* the same upload with the invalid rows taken out.
C2_InvalidRowsDropped ==
    /\ \A i \in 1..Len(df) :
          df[i].reference # NA /\ df[i].reference # <<>> /\ df[i].created_at # NaT
    /\ \A i \in 1..Len(refs_brand) :
          /\ refs_brand[i].reference # NA
          /\ refs_brand[i].reference # <<>>
          /\ refs_brand[i].created_at # NaT
    /\ pc \in {"empty_base", "done"} =>
          LET valid == ValidOnly(RawTable)
              base  == clean_table(valid)
          IN  /\ Len(df) = Len(valid.rows)
              /\ df = base
              /\ pc = "done" =>
                    Views = compute_views(apply_filters(base, f_brand, f_user, f_game),
                                          bucket)

\* a run completed on an upload with one valid and one invalid row
C2_Witness ==
    /\ pc = "done"
    /\ Len(RawTable.rows) = 2
    /\ \E i \in 1..2 : RawInvalid(RawTable.rows[i], colmap(RawTable.cols))
    /\ Len(refs_brand) = 1

-----------------------------------------------------------------------------
(* Games *)

\* the count of game g under brand b in jogos, 0 when jogos has no such row
jogos_count(b, g) ==
    LET hit == {x \in jogos : x.brand_name = b /\ x.game_name = g}
    IN  IF hit = {} THEN 0 ELSE (CHOOSE x \in hit : TRUE).qtd_rollbacks

\* C3: top_jogos_geral and jogos name the same games, top_jogos_geral has one
\* row per game, and its count is the sum over the brands of the game's counts
\* in jogos.
C3_CountConsistency ==
    Aggregated =>
        /\ {x.game_name : x \in top_jogos_geral} = {x.game_name : x \in jogos}
        /\ \A x, y \in top_jogos_geral : x.game_name = y.game_name => x = y
        /\ \A x, y \in jogos :
              (x.game_name = y.game_name /\ x.brand_name = y.brand_name) => x = y
        /\ \A x \in top_jogos_geral :
              LET brands == {y.brand_name : y \in jogos}
              IN  x.qtd_rollbacks =
                      sum_over(brands, [b \in brands |-> jogos_count(b, x.game_name)])

\* one game counted under two brands
C3_Witness ==
    /\ pc = "done"
    /\ \E x \in top_jogos_geral :
          /\ x.qtd_rollbacks = 2
          /\ Cardinality({y \in jogos : y.game_name = x.game_name}) = 2

-----------------------------------------------------------------------------
(* Time buckets *)

\* the per-time-bucket rows a row of refs_brand is counted in
horarios_of(r) ==
    {h \in horarios : h.brand_name = r.brand_name /\ h.bucket_time = r.bucket_time}

\* C9: with g = 3600 s for "Hora" and 60 s for "Minuto", the bucket_time of every
\* row of refs_brand is a multiple of g with bucket_time <= created_at <
\* bucket_time + g; every row is counted in exactly one row of horarios, the one
\* of its brand and floored instant, whose count is the number of rows of
\* refs_brand with that brand and floored instant; and 2024-03-01T10:15:42Z
\* buckets to 10:00:00 ("01/03/2024 10:00") by the hour and to 10:15:00
\* ("01/03/2024 10:15") by the minute; 1709288142 is that instant in seconds
\* since 1970-01-01T00:00:00Z.
C9_BucketFlooring ==
    Aggregated =>
        LET g == IF bucket = "Hora" THEN 3600 ELSE 60
        IN  /\ \A i \in 1..Len(refs_brand) :
                  LET r == refs_brand[i]
                      t == r.created_at[1]
                  IN  /\ r.bucket_time % g = 0
                      /\ r.bucket_time <= t
                      /\ t < r.bucket_time + g
                      /\ Cardinality(horarios_of(r)) = 1
                      /\ \A h \in horarios_of(r) :
                            h.qtd_rollbacks =
                               Cardinality({j \in 1..Len(refs_brand) :
                                   /\ refs_brand[j].brand_name = r.brand_name
                                   /\ refs_brand[j].created_at[1]
                                        - (refs_brand[j].created_at[1] % g)
                                      = t - (t % g)})
                      /\ t = 1709288142 =>
                            /\ r.bucket_time = IF bucket = "Hora" THEN 1709287200
                                                                  ELSE 1709288100
                            /\ \A h \in horarios_of(r) :
                                  h.horario_utc =
                                     IF bucket = "Hora"
                                     THEN <<"0","1","/","0","3","/","2","0","2","4"," ",
                                            "1","0",":","0","0">>
                                     ELSE <<"0","1","/","0","3","/","2","0","2","4"," ",
                                            "1","0",":","1","5">>
            /\ \A h \in horarios :
                  \E i \in 1..Len(refs_brand) : h \in horarios_of(refs_brand[i])

\* two rollbacks of one brand at 10:15:07 and 10:15:42 share a bucket, and the
\* one of 10:15:42 is floored to an earlier instant
C9_Witness ==
    /\ pc = "done"
    /\ \E h \in horarios : h.qtd_rollbacks = 2
    /\ \E i \in 1..Len(refs_brand) :
          /\ refs_brand[i].created_at[1] = 1709288142
          /\ refs_brand[i].bucket_time < 1709288142

-----------------------------------------------------------------------------
(* Conservation *)

\* C10: once the views are computed, the KPI total_rollbacks equals the number
\* of rows of refs_brand and the sum of qtd_rollbacks over horarios; the sum of
\* qtd_rollbacks over jogos is at most that number, and equal to it exactly when
\* no row of refs_brand has an absent game_name.
C10_Conservation ==
    Aggregated =>
        /\ kpis.total_rollbacks = Len(refs_brand)
        /\ sum_qtd(horarios) = Len(refs_brand)
        /\ sum_qtd(jogos) <= Len(refs_brand)
        /\ (sum_qtd(jogos) = Len(refs_brand))
              <=> (\A i \in 1..Len(refs_brand) : refs_brand[i].game_name # NA)

\* two rollbacks, one of them with no game: the KPI is 2, the games sum to 1
C10_Witness ==
    /\ pc = "done"
    /\ kpis.total_rollbacks = 2
    /\ sum_qtd(horarios) = 2
    /\ sum_qtd(jogos) = 1

-----------------------------------------------------------------------------
(* Filters *)

\* row r passes the filters of the run
Matches(r) ==
    /\ f_brand # {} => r.brand_name \in f_brand
    /\ f_user # <<>> => str_contains(str_of(r.user_id), f_user)
    /\ f_game # <<>> => str_contains(str_of(r.game_name), f_game)

\* C7 as stated: the rows of refs_brand under the filters are the rows of the
\* unfiltered refs_brand, the first occurrence of each (brand_name, reference) in
\* the cleaned table, that pass the filters.
C7_FiltersOnDedupBase ==
    Aggregated =>
        Range(without_bucket(refs_brand))
            = Range(apply_filters(dedup_refs(df), f_brand, f_user, f_game))

\* C7, amended: the filters are applied to the cleaned table before the
\* deduplication. Every row of refs_brand is the first row of the cleaned table
\* that carries its (brand_name, reference) and passes the filters; every
\* (brand_name, reference) of a row that passes the filters has a row in
\* refs_brand; every row of the unfiltered refs_brand that passes the filters is
\* in refs_brand; and with no user and no game filter the two tables are equal.
C7_FiltersBeforeDedup ==
    Aggregated =>
        LET refs == without_bucket(refs_brand)
            base == dedup_refs(df)
        IN  /\ \A j \in 1..Len(refs) :
                  \E i \in 1..Len(df) :
                      /\ refs[j] = df[i]
                      /\ Matches(df[i])
                      /\ \A h \in 1..(i - 1) :
                            (df[h].brand_name = df[i].brand_name
                             /\ df[h].reference = df[i].reference) => ~Matches(df[h])
            /\ \A i \in 1..Len(df) :
                  Matches(df[i]) =>
                      \E j \in 1..Len(refs) :
                          /\ refs[j].brand_name = df[i].brand_name
                          /\ refs[j].reference = df[i].reference
            /\ \A i \in 1..Len(base) : Matches(base[i]) => base[i] \in Range(refs)
            /\ (f_user = <<>> /\ f_game = <<>>) =>
                  refs = apply_filters(base, f_brand, f_user, f_game)

\* a row of refs_brand that is a later occurrence of its (brand_name,
\* reference): the first occurrence does not pass the filters, and a second row
\* of the cleaned table with the same key does
C7_Witness ==
    /\ pc = "done"
    /\ Len(df) = 2
    /\ df[1].brand_name = df[2].brand_name
    /\ df[1].reference = df[2].reference
    /\ ~Matches(df[1])
    /\ without_bucket(refs_brand) = <<df[2]>>

-----------------------------------------------------------------------------
(* The base table under the filters *)

\* the columns of the views that do not depend on the bucket
bucket_free(v) ==
    [refs_brand      |-> without_bucket(v.refs_brand),
     cliente_jogo    |-> v.cliente_jogo,
     jogos           |-> v.jogos,
     top_jogos_geral |-> v.top_jogos_geral,
     total_rollbacks |-> v.kpis.total_rollbacks,
     total_usuario_jogo |-> v.kpis.total_usuario_jogo,
     total_jogos     |-> v.kpis.total_jogos]

\* C6: in every run after the first completed one (which no filter narrows),
\* whatever filters were set and cleared in between, the cleaned table df is the
\* df of that first run, before and after the filters are applied; the views of
\* a completed run are those computed from df, the filters and the bucket of the
\* run alone; and a completed run with every filter cleared shows the views of
\* the first run, all of them under the bucket of the first run and all but the
\* time buckets under the other.
C6_FilterNonDestructive ==
    /\ (first_done # <<>> /\ pc \in {"cleaned", "filtered", "empty_filter", "exception",
                                     "processed", "done"})
          => df = first_done[2]
    /\ pc = "done" =>
          Views = compute_views(apply_filters(df, f_brand, f_user, f_game), bucket)
    /\ (pc = "done" /\ NoFilter) =>
          /\ dff = df
          /\ bucket_free(Views) = bucket_free(first_done[3])
          /\ bucket = first_done[1] => Views = first_done[3]

\* a completed run with every filter cleared, after filters were set, on a base
\* of two rollbacks
C6_Witness ==
    /\ pc = "done"
    /\ NoFilter
    /\ filters_changed
    /\ Len(refs_brand) = 2

-----------------------------------------------------------------------------
(* The ends of a run *)

\* C8: a run on an uploaded table that has no step left has ended with the
\* missing-columns error, the empty-base warning, the empty-filter warning or
\* the complete page, each told from the others by its message; in the first
\* three no view is computed or shown; a complete page shows the four views;
\* and in no state is a view shown while another is not.
C8_AllOrNothing ==
    /\ (uploaded # <<>> /\ ~Running)
          => pc \in {"missing_columns", "empty_base", "empty_filter", "done"}
    /\ pc = "missing_columns" => msg.kind = "error" /\ msg.missing # <<>>
    /\ pc = "empty_base" => msg.kind = "warning_base"
    /\ pc = "empty_filter" => msg.kind = "warning_filter"
    /\ pc = "done" => msg.kind = "none" /\ computed = ViewNames /\ shown = ViewNames
    /\ pc \in {"missing_columns", "empty_base", "empty_filter"} =>
          /\ computed = {}
          /\ shown = {}
          /\ Views = [refs_brand |-> <<>>, cliente_jogo |-> {}, horarios |-> {},
                      jogos |-> {}, top_jogos_geral |-> {}, kpis |-> NoKpis]
    /\ shown \in {{}, ViewNames}

=============================================================================
